---- MODULE Spec2Model ----
(***************************************************************************)
(* A model of the translator package of hightemp/go_ai_translate:          *)
(* Translator.splitIntoChunks (the chunker), Translator.TranslateFile      *)
(* (the per-chunk pipeline), Translator.translateChunk and                 *)
(* Translator.extractResultTag.                                            *)
(*                                                                         *)
(* A Go string is modelled as a sequence of one-character strings, so      *)
(* len(s) is Len(s) and s[i:j] is SubSeq(s, i+1, j).                       *)
(***************************************************************************)
EXTENDS Integers, Sequences, FiniteSets, TLC

(***************************************************************************)
(* Bounds of the model.                                                    *)
(***************************************************************************)
\* an input text is the concatenation of at most MaxPieces pieces
MaxPieces == 5
\* Config.ChunkSize ranges over 1..MaxChunkSize
MaxChunkSize == 2

(***************************************************************************)
(* String helpers (package strings).                                       *)
(***************************************************************************)
NL == "\n"
SP == " "

RECURSIVE Concat(_)
Concat(ss) == IF ss = <<>> THEN <<>> ELSE Head(ss) \o Concat(Tail(ss))

\* s[from-1:] begins with sub
MatchAt(s, sub, from) ==
    /\ from + Len(sub) - 1 <= Len(s)
    /\ \A k \in 1..Len(sub) : s[from + k - 1] = sub[k]

\* strings.Index, 1-based, 0 when sub does not occur at or after from
IndexFrom(s, sub, from) ==
    LET hits == { i \in from..(Len(s) - Len(sub) + 1) : MatchAt(s, sub, i) }
    IN  IF hits = {} THEN 0 ELSE CHOOSE i \in hits : \A j \in hits : i <= j

\* strings.Split(s, sep) for a non-empty sep
RECURSIVE Split(_, _)
Split(s, sep) ==
    LET i == IndexFrom(s, sep, 1)
    IN  IF i = 0 THEN <<s>>
        ELSE <<SubSeq(s, 1, i - 1)>> \o Split(SubSeq(s, i + Len(sep), Len(s)), sep)

\* strings.HasSuffix(s, "\n")
HasSuffixNL(s) == Len(s) > 0 /\ s[Len(s)] = NL

\* the token estimate used everywhere: len(s) / 4
CharsPerToken == 4
EstimateTokens(s) == Len(s) \div CharsPerToken

Max(a, b) == IF a >= b THEN a ELSE b

(***************************************************************************)
(* The inputs: texts built from a few pieces.                              *)
(***************************************************************************)
Pieces ==
    { <<"a", "a", "a">>,               \* a word of less than one token
      <<"a", "a", "a", "a", "a">>,     \* a word of one token
      <<SP>>,
      <<NL>>,
      <<".", SP>>,                     \* the first sentence splitter
      <<"!", SP>> }                    \* the second sentence splitter

PieceSeqs(n) == UNION { [1..k -> Pieces] : k \in 0..n }
Texts == { Concat(ps) : ps \in PieceSeqs(MaxPieces) }
ChunkSizes == 1..MaxChunkSize

(***************************************************************************)
(* Translator.splitIntoChunks: the pieces of the packing loop.             *)
(*                                                                         *)
(* A buffer b is the loop's state: chunks, currentChunk, currentTokens.    *)
(* Two history fields ride along and influence nothing: curUnit is the     *)
(* largest estimate of a unit (paragraph, line, sentence) held in          *)
(* currentChunk, and chunkUnit[k] is that value for the emitted chunks[k]  *)
(* (for a fixed-width window, the window's own estimate).                  *)
(***************************************************************************)
MinEffectiveChunkSize == 100

\* a variant of effectiveChunkSizeOf: the small product is kept
effectiveChunkSizeOf_NoFloor(cs) == (cs * 8) \div 10

\* int(float64(ChunkSize) * 0.8), replaced by ChunkSize when below 100
effectiveChunkSizeOf(cs) ==
    LET scaled == (cs * 8) \div 10
    IN  IF scaled < MinEffectiveChunkSize THEN cs ELSE scaled

EmptyBuf ==
    [chunks |-> <<>>, currentChunk |-> <<>>, currentTokens |-> 0,
     chunkUnit |-> <<>>, curUnit |-> 0]

\* chunks = append(chunks, currentChunk); currentChunk = ""; currentTokens = 0
EmitChunk(b) ==
    [b EXCEPT !.chunks = Append(b.chunks, b.currentChunk),
              !.chunkUnit = Append(b.chunkUnit, b.curUnit),
              !.currentChunk = <<>>, !.currentTokens = 0, !.curUnit = 0]

\* chunks = append(chunks, currentChunk); currentChunk = unit; currentTokens = its estimate
EmitAndRestart(b, unit) ==
    [b EXCEPT !.chunks = Append(b.chunks, b.currentChunk),
              !.chunkUnit = Append(b.chunkUnit, b.curUnit),
              !.currentChunk = unit, !.currentTokens = EstimateTokens(unit),
              !.curUnit = EstimateTokens(unit)]

\* currentChunk += joiner (counted as one token) when currentTokens > 0; currentChunk += unit
Accumulate(b, unit, joiner) ==
    LET joined == b.currentTokens > 0 /\ joiner # <<>>
    IN  [b EXCEPT !.currentChunk = (IF joined THEN b.currentChunk \o joiner ELSE b.currentChunk) \o unit,
                  !.currentTokens = b.currentTokens + (IF joined THEN 1 ELSE 0) + EstimateTokens(unit),
                  !.curUnit = Max(b.curUnit, EstimateTokens(unit))]

\* a paragraph that does not exceed the effective size
AddParagraph(b, paragraph, eff) ==
    IF b.currentTokens > 0 /\ (b.currentTokens + EstimateTokens(paragraph) + 1) > eff
    THEN EmitAndRestart(b, paragraph)
    ELSE Accumulate(b, paragraph, <<NL, NL>>)

\* one line of a paragraph that exceeds the effective size
AddLine(b, line, eff) ==
    IF b.currentTokens > 0 /\ (b.currentTokens + EstimateTokens(line) + 1) > eff
    THEN EmitAndRestart(b, line)
    ELSE Accumulate(b, line, <<NL>>)

\* one sentence of a single-line paragraph that exceeds the effective size
AddSentence(b, sentence, eff) ==
    IF b.currentTokens > 0 /\ (b.currentTokens + EstimateTokens(sentence)) > eff
    THEN EmitAndRestart(b, sentence)
    ELSE Accumulate(b, sentence, <<>>)

\* the window paragraph[i:end] of the fixed-width loop, end = min(i + eff*4, len)
Window(paragraph, i, eff) ==
    LET stop == i + eff * CharsPerToken
        end  == IF stop > Len(paragraph) THEN Len(paragraph) ELSE stop
    IN  SubSeq(paragraph, i + 1, end)

\* chunks = append(chunks, paragraph[i:end])
AddWindow(b, paragraph, i, eff) ==
    [b EXCEPT !.chunks = Append(b.chunks, Window(paragraph, i, eff)),
              !.chunkUnit = Append(b.chunkUnit, EstimateTokens(Window(paragraph, i, eff)))]

\* the fixed-width loop's step: i += effectiveChunkSize * 4
NextWindowIndex(i, eff) == i + eff * CharsPerToken

\* a variant of EmitIfNonEmpty: the buffer is emitted whatever it holds
EmitIfNonEmpty_Always(b) == EmitChunk(b)

\* a paragraph over the effective size first emits the pending buffer
EmitIfNonEmpty(b) == IF b.currentChunk # <<>> THEN EmitChunk(b) ELSE b

\* the early flush that ends every paragraph's iteration
EndParagraph(b, eff) == IF b.currentTokens >= eff THEN EmitChunk(b) ELSE b

SentenceSplitters == << <<".", SP>>, <<"!", SP>>, <<"?", SP>>, <<";", SP>> >>

\* the splitter loop: each splitter cuts what the splitters before it left as the tail
RECURSIVE SplitSentences(_, _, _)
SplitSentences(rest, sentences, splitters) ==
    IF splitters = <<>> THEN [text |-> rest, sentences |-> sentences]
    ELSE LET splitter == Head(splitters)
             parts    == Split(rest, splitter)
         IN  IF Len(parts) > 1
             THEN SplitSentences(parts[Len(parts)],
                                 sentences \o [i \in 1..(Len(parts) - 1) |-> parts[i] \o <<splitter[1]>>],
                                 Tail(splitters))
             ELSE SplitSentences(rest, sentences, Tail(splitters))

\* a variant of Sentences: the tail after the last marker is not kept
Sentences_NoTail(paragraph) == SplitSentences(paragraph, <<>>, SentenceSplitters).sentences

\* lines 187-203: the sentences of a paragraph, the tail included when it is not empty
Sentences(paragraph) ==
    LET r == SplitSentences(paragraph, <<>>, SentenceSplitters)
    IN  IF r.text # <<>> THEN Append(r.sentences, r.text) ELSE r.sentences

(***************************************************************************)
(* splitIntoChunks as one function, as TranslateFile calls it.             *)
(***************************************************************************)
RECURSIVE PackLines(_, _, _, _)
PackLines(b, lines, k, eff) ==
    IF k > Len(lines) THEN b ELSE PackLines(AddLine(b, lines[k], eff), lines, k + 1, eff)

RECURSIVE PackSentences(_, _, _, _)
PackSentences(b, sentences, k, eff) ==
    IF k > Len(sentences) THEN b
    ELSE PackSentences(AddSentence(b, sentences[k], eff), sentences, k + 1, eff)

RECURSIVE SliceAll(_, _, _, _)
SliceAll(b, paragraph, i, eff) ==
    IF i < Len(paragraph)
    THEN SliceAll(AddWindow(b, paragraph, i, eff), paragraph, NextWindowIndex(i, eff), eff)
    ELSE b

\* one iteration of the loop over the paragraphs
ProcessParagraph(b, paragraph, eff) ==
    EndParagraph(
        IF EstimateTokens(paragraph) > eff
        THEN LET b1    == EmitIfNonEmpty(b)
                 lines == Split(paragraph, <<NL>>)
             IN  IF Len(lines) > 1 THEN PackLines(b1, lines, 1, eff)
                 ELSE IF Len(Sentences(paragraph)) <= 1 THEN SliceAll(b1, paragraph, 0, eff)
                 ELSE PackSentences(b1, Sentences(paragraph), 1, eff)
        ELSE AddParagraph(b, paragraph, eff),
        eff)

RECURSIVE PackParagraphs(_, _, _, _)
PackParagraphs(b, paras, k, eff) ==
    IF k > Len(paras) THEN b
    ELSE PackParagraphs(ProcessParagraph(b, paras[k], eff), paras, k + 1, eff)

\* a variant of FitsBudget: the comparison made strict
FitsBudget_Strict(t, cs) == EstimateTokens(t) < cs

\* the text fits the budget: it is returned whole
FitsBudget(t, cs) == EstimateTokens(t) <= cs

\* a variant of splitIntoChunks: the empty text is not told apart
splitIntoChunks_NoEmptyCase(t, cs) ==
    IF FitsBudget(t, cs) THEN <<t>>
    ELSE EmitIfNonEmpty(
             PackParagraphs(EmptyBuf, Split(t, <<NL, NL>>), 1, effectiveChunkSizeOf(cs))).chunks

splitIntoChunks(t, cs) ==
    IF t = <<>> THEN <<>>
    ELSE IF FitsBudget(t, cs) THEN <<t>>
    ELSE EmitIfNonEmpty(
             PackParagraphs(EmptyBuf, Split(t, <<NL, NL>>), 1, effectiveChunkSizeOf(cs))).chunks

(***************************************************************************)
(* The retry ceiling, the backoff and the pacing delay (milliseconds).     *)
(***************************************************************************)
DefaultMaxRetries == 3
InitialRetryDelayMs == 2000
BasePacingMs == 10
PacingThresholdChars == 1000
PacingStepMs == 300
PacingCapMs == 1500

\* a variant of maxRetriesOf: the configured value as it is
maxRetriesOf_NoDefault(configured) == configured

\* maxRetries := t.config.MaxRetries; if maxRetries <= 0 { maxRetries = 3 }
maxRetriesOf(configured) == IF configured <= 0 THEN DefaultMaxRetries ELSE configured

\* a variant of AttemptsLeft: one attempt too many
AttemptsLeft_OffByOne(a, ceiling) == a <= ceiling

\* the loops' condition: attempt < maxRetries
AttemptsLeft(a, ceiling) == a < ceiling

\* a variant of NextRetryDelay: the delay grows by its initial value
NextRetryDelay_Linear(d) == d + InitialRetryDelayMs

\* retryDelay *= 2
NextRetryDelay(d) == d * 2

\* the delay slept after a written chunk that is not the last one
PacingDelayMs(chunkLen) ==
    IF chunkLen > PacingThresholdChars
    THEN LET additional == (chunkLen \div PacingThresholdChars) * PacingStepMs
         IN  BasePacingMs + (IF additional > PacingCapMs THEN PacingCapMs ELSE additional)
    ELSE BasePacingMs

(***************************************************************************)
(* Translator.extractResultTag and the response handling of                *)
(* Translator.translateChunk.                                              *)
(***************************************************************************)
OpenTag  == <<"<", "r", "e", "s", "u", "l", "t", ">">>
CloseTag == <<"<", "/", "r", "e", "s", "u", "l", "t", ">">>

NoError == "nil"

\* a variant of extractResultTag: the content itself when it holds no tag
extractResultTag_RawFallback(input) ==
    LET open  == IndexFrom(input, OpenTag, 1)
        close == IF open = 0 THEN 0 ELSE IndexFrom(input, CloseTag, open + Len(OpenTag))
    IN  IF close = 0
        THEN [result |-> input, err |-> NoError]
        ELSE [result |-> SubSeq(input, open + Len(OpenTag), close - 1), err |-> NoError]

\* regexp (?s)<result>(.*?)</result>, FindStringSubmatch: the leftmost match, its
\* group as short as can be
extractResultTag(input) ==
    LET open  == IndexFrom(input, OpenTag, 1)
        close == IF open = 0 THEN 0 ELSE IndexFrom(input, CloseTag, open + Len(OpenTag))
    IN  IF close = 0
        THEN [result |-> <<>>, err |-> "tag <result> not found"]
        ELSE [result |-> SubSeq(input, open + Len(OpenTag), close - 1), err |-> NoError]

StatusOK == 200

\* what translateChunk does with a response that client.Do delivered
HandleResponse(resp) ==
    IF ~resp.body.readable
    THEN [result |-> <<>>, err |-> "failed to read response"]
    ELSE IF resp.status # StatusOK
    THEN [result |-> <<>>, err |-> "API request failed"]
    ELSE IF ~resp.body.json
    THEN [result |-> <<>>, err |-> "failed to unmarshal response"]
    ELSE IF resp.body.apiError
    THEN [result |-> <<>>, err |-> "API error"]
    ELSE IF Len(resp.body.choices) = 0
    THEN [result |-> <<>>, err |-> "no translation returned from API"]
    ELSE extractResultTag(resp.body.choices[1])

\* the errors of lines 376-402: the response was delivered with status 200 and is not
\* of the expected form
FormatErrors ==
    {"failed to unmarshal response", "no translation returned from API", "tag <result> not found"}

\* an attempt of client.Do that failed
SendFailed == [result |-> <<>>, err |-> "failed to send request"]

(***************************************************************************)
(* bufio.Writer over the output file.  The model's strings are far shorter *)
(* than the writer's 4096-byte buffer: WriteString only fills the buffer,  *)
(* and the file is written by Flush.  The file takes the first `accepted`  *)
(* characters of a write; when that is not all of them the write failed,   *)
(* the rest stays in the buffer and the error stays in the writer, which   *)
(* then fails every later call.                                            *)
(***************************************************************************)
NewWriter == [buf |-> <<>>, err |-> FALSE]

\* writer.WriteString(s): [w: the writer after the call, failed: it returned an error]
WriteString(w, s) ==
    IF w.err THEN [w |-> w, failed |-> TRUE]
    ELSE [w |-> [w EXCEPT !.buf = @ \o s], failed |-> FALSE]

\* writer.Flush(): [w, file]
WriterFlush(w, f, accepted) ==
    IF w.err \/ w.buf = <<>> THEN [w |-> w, file |-> f]
    ELSE IF accepted >= Len(w.buf) THEN [w |-> [w EXCEPT !.buf = <<>>], file |-> f \o w.buf]
    ELSE [w |-> [buf |-> SubSeq(w.buf, accepted + 1, Len(w.buf)), err |-> TRUE],
          file |-> f \o SubSeq(w.buf, 1, accepted)]

\* lines 92-100: the translated chunk, the separator, the flush
NeedsSeparator(translated, i, n) == i < n /\ ~HasSuffixNL(translated)

WriteChunk(w, f, translated, i, n, accepted) ==
    LET w1 == WriteString(w, translated)
    IN  IF w1.failed THEN [w |-> w1.w, file |-> f, failed |-> TRUE]
        ELSE LET w2 == IF NeedsSeparator(translated, i, n)
                       THEN WriteString(w1.w, <<NL>>).w ELSE w1.w
                 fl == WriterFlush(w2, f, accepted)
             IN  [w |-> fl.w, file |-> fl.file, failed |-> FALSE]

(***************************************************************************)
(* The inputs of the pipeline and of the response handling.                *)
(***************************************************************************)
\* the documents TranslateFile is run on: at most MaxDocPieces pieces
MaxDocPieces == 2
\* Config.MaxRetries ranges over -1..MaxRetriesConfig
MaxRetriesConfig == 3
\* a message content is the concatenation of at most MaxContentPieces pieces
MaxContentPieces == 3
\* the ceiling on attempts where the backoff is followed
MaxBackoffRetries == 4

DocPieces == { <<"a", "a", "a", "a", "a">>, <<NL>> }
Documents == { Concat(ps) : ps \in UNION { [1..k -> DocPieces] : k \in 0..MaxDocPieces } }
RetryConfigs == (0 - 1)..MaxRetriesConfig

ContentPieces == { OpenTag, CloseTag, <<"x">>, <<NL>> }
Contents == { Concat(ps) : ps \in UNION { [1..k -> ContentPieces] : k \in 0..MaxContentPieces } }

Body(readable, json, apiError, choices) ==
    [readable |-> readable, json |-> json, apiError |-> apiError, choices |-> choices]

BodiesOver(contents) ==
    { Body(FALSE, FALSE, FALSE, <<>>),      \* the body cannot be read
      Body(TRUE, FALSE, FALSE, <<>>),       \* not JSON
      Body(TRUE, TRUE, TRUE, <<>>),         \* an error object
      Body(TRUE, TRUE, FALSE, <<>>) }       \* no choices
    \cup { Body(TRUE, TRUE, FALSE, <<c>>) : c \in contents }
    \cup { Body(TRUE, TRUE, FALSE, <<c, <<"x">>>>) : c \in contents }

Statuses == {StatusOK, 500}
ResponsesOver(contents) == [status : Statuses, body : BodiesOver(contents)]

\* the contents the pipeline's stub answers with
PipeContents ==
    { OpenTag \o <<"x">> \o CloseTag,
      OpenTag \o <<"x", NL>> \o CloseTag,
      <<"x">>,
      OpenTag \o <<"x">> }

NoResponse == [status |-> 0, body |-> Body(FALSE, FALSE, FALSE, <<>>)]

(***************************************************************************)
(* State.                                                                  *)
(***************************************************************************)
VARIABLES
    text,               \* splitIntoChunks' argument; the content of TranslateFile's input file
    ChunkSize,          \* Config.ChunkSize
    MaxRetries,         \* Config.MaxRetries
    pc,                 \* where splitIntoChunks is: call, para, lines, sentences, slice, done
    effectiveChunkSize,
    paragraphs,         \* strings.Split(text, "\n\n")
    paraIdx,            \* the paragraph the outer loop is at (from 1)
    units,              \* the lines or the sentences of the paragraph being packed
    unitIdx,            \* the line or sentence the inner loop is at (from 1)
    sliceIdx,           \* the fixed-width loop's i (from 0)
    chunks,
    currentChunk,
    currentTokens,
    chunkUnit,          \* history: see the buffer
    curUnit,            \* history: see the buffer
    sliced,             \* history: the fixed-width loop was entered
    tpc,                \* where TranslateFile is: start, loop, attempt, send, returned, write, exit
    fileChunks,         \* TranslateFile's chunks
    chunkNo,            \* i + 1: the chunk the loop is at
    maxRetries,         \* the per-chunk loop's ceiling
    attempt,            \* the per-chunk loop's attempt
    retryDelay,         \* the per-chunk loop's backoff delay
    sendAttempt,        \* translateChunk's attempt
    sendDelay,          \* translateChunk's backoff delay
    translatedChunk,
    chunkErr,
    writer,             \* the bufio.Writer
    file,               \* what the output file holds
    ret,                \* TranslateFile's return value
    resp,               \* the response translateChunk handles
    calls,              \* history: calls of translateChunk for this chunk
    successes,          \* history: those of them that returned no error
    sends,              \* history: calls of client.Do for this chunk
    transportFailures,  \* history: those of them that ended in a transport error
    slept,              \* history: the sleep the last step made
    translations,       \* history: the translation each finished chunk got
    everCalled          \* history: translateChunk was called at all

splitVars ==
    <<pc, effectiveChunkSize, paragraphs, paraIdx, units, unitIdx, sliceIdx,
      chunks, currentChunk, currentTokens, chunkUnit, curUnit, sliced>>

pipeVars ==
    <<MaxRetries, tpc, fileChunks, chunkNo, maxRetries, attempt, retryDelay, sendAttempt,
      sendDelay, translatedChunk, chunkErr, writer, file, ret, calls, successes, sends,
      transportFailures, slept, translations, everCalled>>

vars == <<text, ChunkSize, splitVars, pipeVars, resp>>

Buf ==
    [chunks |-> chunks, currentChunk |-> currentChunk, currentTokens |-> currentTokens,
     chunkUnit |-> chunkUnit, curUnit |-> curUnit]

SetBuf(b) ==
    /\ chunks' = b.chunks
    /\ currentChunk' = b.currentChunk
    /\ currentTokens' = b.currentTokens
    /\ chunkUnit' = b.chunkUnit
    /\ curUnit' = b.curUnit

SplitIdle ==
    /\ effectiveChunkSize = 0
    /\ paragraphs = <<>>
    /\ paraIdx = 1
    /\ units = <<>>
    /\ unitIdx = 1
    /\ sliceIdx = 0
    /\ chunks = <<>>
    /\ currentChunk = <<>>
    /\ currentTokens = 0
    /\ chunkUnit = <<>>
    /\ curUnit = 0
    /\ sliced = FALSE

NoSleep == [site |-> "none", ms |-> 0]
Running == [kind |-> "running", chunk |-> 0, attempts |-> 0, cause |-> NoError]

PipeIdle ==
    /\ fileChunks = <<>>
    /\ chunkNo = 1
    /\ maxRetries = 0
    /\ attempt = 0
    /\ retryDelay = 0
    /\ sendAttempt = 0
    /\ sendDelay = 0
    /\ translatedChunk = <<>>
    /\ chunkErr = NoError
    /\ writer = NewWriter
    /\ file = <<>>
    /\ ret = Running
    /\ calls = 0
    /\ successes = 0
    /\ sends = 0
    /\ transportFailures = 0
    /\ slept = NoSleep
    /\ translations = <<>>
    /\ everCalled = FALSE

(***************************************************************************)
(* splitIntoChunks, one loop iteration at a time.                          *)
(***************************************************************************)
Init ==
    /\ text \in Texts
    /\ ChunkSize \in ChunkSizes
    /\ pc = "call"
    /\ SplitIdle
    /\ MaxRetries = 0
    /\ tpc = "idle"
    /\ PipeIdle
    /\ resp = NoResponse

\* entry: the empty text, the text that fits the budget, or the set-up of the loop
Split_Enter ==
    /\ pc = "call"
    /\ IF text = <<>>
       THEN /\ chunks' = <<>>
            /\ pc' = "done"
            /\ UNCHANGED <<effectiveChunkSize, paragraphs>>
       ELSE IF FitsBudget(text, ChunkSize)
       THEN /\ chunks' = <<text>>
            /\ pc' = "done"
            /\ UNCHANGED <<effectiveChunkSize, paragraphs>>
       ELSE /\ effectiveChunkSize' = effectiveChunkSizeOf(ChunkSize)
            /\ paragraphs' = Split(text, <<NL, NL>>)
            /\ pc' = "para"
            /\ UNCHANGED chunks
    /\ UNCHANGED <<text, ChunkSize, paraIdx, units, unitIdx, sliceIdx, currentChunk,
                   currentTokens, chunkUnit, curUnit, sliced, pipeVars, resp>>

\* the head of one paragraph's iteration: a small paragraph is packed at once,
\* a large one is handed to the line, sentence or fixed-width loop
Para_Begin ==
    /\ pc = "para"
    /\ paraIdx <= Len(paragraphs)
    /\ LET paragraph == paragraphs[paraIdx]
           eff       == effectiveChunkSize
       IN  IF EstimateTokens(paragraph) > eff
           THEN LET lines == Split(paragraph, <<NL>>)
                IN  /\ SetBuf(EmitIfNonEmpty(Buf))
                    /\ unitIdx' = 1
                    /\ sliceIdx' = 0
                    /\ paraIdx' = paraIdx
                    /\ IF Len(lines) > 1
                       THEN pc' = "lines" /\ units' = lines /\ sliced' = sliced
                       ELSE IF Len(Sentences(paragraph)) <= 1
                       THEN pc' = "slice" /\ units' = <<>> /\ sliced' = TRUE
                       ELSE pc' = "sentences" /\ units' = Sentences(paragraph) /\ sliced' = sliced
           ELSE /\ SetBuf(EndParagraph(AddParagraph(Buf, paragraph, eff), eff))
                /\ paraIdx' = paraIdx + 1
                /\ UNCHANGED <<pc, units, unitIdx, sliceIdx, sliced>>
    /\ UNCHANGED <<text, ChunkSize, effectiveChunkSize, paragraphs, pipeVars, resp>>

\* what follows a unit of a large paragraph: after the last one, the early flush
\* and the next paragraph
AfterUnit(b, last) ==
    IF last
    THEN /\ SetBuf(EndParagraph(b, effectiveChunkSize))
         /\ paraIdx' = paraIdx + 1
         /\ pc' = "para"
    ELSE /\ SetBuf(b)
         /\ UNCHANGED <<paraIdx, pc>>

Line_Step ==
    /\ pc = "lines"
    /\ unitIdx <= Len(units)
    /\ AfterUnit(AddLine(Buf, units[unitIdx], effectiveChunkSize), unitIdx = Len(units))
    /\ unitIdx' = unitIdx + 1
    /\ UNCHANGED <<text, ChunkSize, effectiveChunkSize, paragraphs, units, sliceIdx, sliced,
                   pipeVars, resp>>

Sentence_Step ==
    /\ pc = "sentences"
    /\ unitIdx <= Len(units)
    /\ AfterUnit(AddSentence(Buf, units[unitIdx], effectiveChunkSize), unitIdx = Len(units))
    /\ unitIdx' = unitIdx + 1
    /\ UNCHANGED <<text, ChunkSize, effectiveChunkSize, paragraphs, units, sliceIdx, sliced,
                   pipeVars, resp>>

Slice_Step ==
    /\ pc = "slice"
    /\ sliceIdx < Len(paragraphs[paraIdx])
    /\ sliceIdx' = NextWindowIndex(sliceIdx, effectiveChunkSize)
    /\ AfterUnit(AddWindow(Buf, paragraphs[paraIdx], sliceIdx, effectiveChunkSize),
                 ~(sliceIdx' < Len(paragraphs[paraIdx])))
    /\ UNCHANGED <<text, ChunkSize, effectiveChunkSize, paragraphs, units, unitIdx, sliced,
                   pipeVars, resp>>

\* after the last paragraph: the trailing buffer, the return
Split_Return ==
    /\ pc = "para"
    /\ paraIdx > Len(paragraphs)
    /\ SetBuf(EmitIfNonEmpty(Buf))
    /\ pc' = "done"
    /\ UNCHANGED <<text, ChunkSize, effectiveChunkSize, paragraphs, paraIdx, units, unitIdx,
                   sliceIdx, sliced, pipeVars, resp>>

Next ==
    \/ Split_Enter
    \/ Para_Begin
    \/ Line_Step
    \/ Sentence_Step
    \/ Slice_Step
    \/ Split_Return

Spec == Init /\ [][Next]_vars

(***************************************************************************)
(* TranslateFile.                                                          *)
(***************************************************************************)
PipeInit ==
    /\ text \in Documents
    /\ ChunkSize \in ChunkSizes
    /\ MaxRetries \in RetryConfigs
    /\ pc = "idle"
    /\ SplitIdle
    /\ tpc = "start"
    /\ PipeIdle
    /\ resp = NoResponse

\* how much of a write of s the file may take
Accepted(s) == 0..Len(s)

Failure(kind, n, attempts, cause) ==
    [kind |-> kind, chunk |-> n, attempts |-> attempts, cause |-> cause]

\* a return after the writer exists runs the deferred writer.Flush()
ReturnWith(value) ==
    /\ \E accepted \in Accepted(writer.buf) :
           LET fl == WriterFlush(writer, file, accepted)
           IN  writer' = fl.w /\ file' = fl.file
    /\ ret' = value
    /\ tpc' = "exit"

\* lines 37-54: read the input, split it, create the output, wrap it in a writer
TF_Start ==
    /\ tpc = "start"
    /\ \E readOk, createOk \in BOOLEAN :
           IF ~readOk
           THEN /\ ret' = Failure("failed to read input file", 0, 0, NoError)
                /\ tpc' = "exit"
                /\ UNCHANGED fileChunks
           ELSE IF ~createOk
           THEN /\ ret' = Failure("failed to create output file", 0, 0, NoError)
                /\ tpc' = "exit"
                /\ fileChunks' = splitIntoChunks(text, ChunkSize)
           ELSE /\ ret' = ret
                /\ tpc' = "loop"
                /\ fileChunks' = splitIntoChunks(text, ChunkSize)
    /\ chunkNo' = 1
    /\ writer' = NewWriter
    /\ file' = <<>>
    /\ slept' = NoSleep
    /\ UNCHANGED <<text, ChunkSize, MaxRetries, splitVars, maxRetries, attempt, retryDelay,
                   sendAttempt, sendDelay, translatedChunk, chunkErr, resp, calls, successes,
                   sends, transportFailures, translations, everCalled>>

\* lines 56-68: the loop takes the next chunk and sets up its retry state
TF_ChunkBegin ==
    /\ tpc = "loop"
    /\ chunkNo <= Len(fileChunks)
    /\ translatedChunk' = <<>>
    /\ chunkErr' = NoError
    /\ maxRetries' = maxRetriesOf(MaxRetries)
    /\ retryDelay' = InitialRetryDelayMs
    /\ attempt' = 0
    /\ calls' = 0
    /\ successes' = 0
    /\ sends' = 0
    /\ transportFailures' = 0
    /\ slept' = NoSleep
    /\ tpc' = "attempt"
    /\ UNCHANGED <<text, ChunkSize, MaxRetries, splitVars, fileChunks, chunkNo, sendAttempt,
                   sendDelay, writer, file, ret, resp, translations, everCalled>>

\* lines 120-124: the loop is over
TF_ReturnNil ==
    /\ tpc = "loop"
    /\ chunkNo > Len(fileChunks)
    /\ ReturnWith(Failure(NoError, 0, 0, NoError))
    /\ slept' = NoSleep
    /\ UNCHANGED <<text, ChunkSize, MaxRetries, splitVars, fileChunks, chunkNo, maxRetries,
                   attempt, retryDelay, sendAttempt, sendDelay, translatedChunk, chunkErr,
                   resp, calls, successes, sends, transportFailures, translations, everCalled>>

\* lines 70-81 and 290-327: the backoff before a retry, then the call of translateChunk
\* up to its own retry state
TF_Attempt ==
    /\ tpc = "attempt"
    /\ AttemptsLeft(attempt, maxRetries)
    /\ IF attempt > 0
       THEN slept' = [site |-> "chunk", ms |-> retryDelay] /\ retryDelay' = NextRetryDelay(retryDelay)
       ELSE slept' = NoSleep /\ retryDelay' = retryDelay
    /\ calls' = calls + 1
    /\ everCalled' = TRUE
    /\ sendAttempt' = 0
    /\ sendDelay' = InitialRetryDelayMs
    /\ tpc' = "send"
    /\ UNCHANGED <<text, ChunkSize, MaxRetries, splitVars, fileChunks, chunkNo, maxRetries,
                   attempt, translatedChunk, chunkErr, writer, file, ret, resp, successes,
                   sends, transportFailures, translations>>

\* a variant of CallReturns: a response-format error is sent again while attempts are left
CallReturns_ResendFormat(r) ==
    IF r.err \in FormatErrors /\ AttemptsLeft(sendAttempt + 1, maxRetriesOf(MaxRetries))
    THEN /\ chunkErr' = r.err
         /\ UNCHANGED <<translatedChunk, successes, tpc>>
    ELSE /\ translatedChunk' = r.result
         /\ chunkErr' = r.err
         /\ successes' = IF r.err = NoError THEN successes + 1 ELSE successes
         /\ tpc' = "returned"

\* translateChunk returns to the per-chunk loop
CallReturns(r) ==
    /\ translatedChunk' = r.result
    /\ chunkErr' = r.err
    /\ successes' = IF r.err = NoError THEN successes + 1 ELSE successes
    /\ tpc' = "returned"

\* lines 329-405: one iteration of translateChunk's loop around client.Do; a response,
\* or the last failed attempt, ends the call
TC_Send ==
    /\ tpc = "send"
    /\ AttemptsLeft(sendAttempt, maxRetriesOf(MaxRetries))
    /\ IF sendAttempt > 0
       THEN slept' = [site |-> "send", ms |-> sendDelay] /\ sendDelay' = NextRetryDelay(sendDelay)
       ELSE slept' = NoSleep /\ sendDelay' = sendDelay
    /\ sends' = sends + 1
    /\ \/ \* client.Do returns an error
          /\ sendAttempt' = sendAttempt + 1
          /\ transportFailures' = transportFailures + 1
          /\ IF AttemptsLeft(sendAttempt + 1, maxRetriesOf(MaxRetries))
             THEN UNCHANGED <<translatedChunk, chunkErr, successes, tpc>>
             ELSE CallReturns(SendFailed)
       \/ \* client.Do returns a response
          /\ \E r \in ResponsesOver(PipeContents) :
                 /\ CallReturns(HandleResponse(r))
                 /\ transportFailures' =
                        IF HandleResponse(r).err = "API request failed"
                        THEN transportFailures + 1 ELSE transportFailures
          /\ sendAttempt' = sendAttempt
    /\ UNCHANGED <<text, ChunkSize, MaxRetries, splitVars, fileChunks, chunkNo, maxRetries,
                   attempt, retryDelay, writer, file, ret, resp, calls, translations,
                   everCalled>>

\* lines 82-90: break on success, go round on failure, give up after the last attempt
TF_AfterCall ==
    /\ tpc = "returned"
    /\ slept' = NoSleep
    /\ IF chunkErr = NoError
       THEN /\ tpc' = "write"
            /\ UNCHANGED <<attempt, writer, file, ret>>
       ELSE IF AttemptsLeft(attempt + 1, maxRetries)
       THEN /\ tpc' = "attempt"
            /\ attempt' = attempt + 1
            /\ UNCHANGED <<writer, file, ret>>
       ELSE /\ attempt' = attempt + 1
            /\ ReturnWith(Failure("failed to translate chunk", chunkNo, maxRetries, chunkErr))
    /\ UNCHANGED <<text, ChunkSize, MaxRetries, splitVars, fileChunks, chunkNo, maxRetries,
                   retryDelay, sendAttempt, sendDelay, translatedChunk, chunkErr, resp, calls,
                   successes, sends, transportFailures, translations, everCalled>>

\* lines 92-117: write the translation, the separator, flush, pace, next chunk
TF_Write ==
    /\ tpc = "write"
    /\ \E accepted \in Accepted(writer.buf \o translatedChunk \o <<NL>>) :
           LET n   == Len(fileChunks)
               out == WriteChunk(writer, file, translatedChunk, chunkNo, n, accepted)
           IN  IF out.failed
               THEN /\ writer' = out.w
                    /\ file' = out.file
                    /\ ret' = Failure("failed to write translated chunk to output file",
                                      0, 0, NoError)
                    /\ tpc' = "exit"
                    /\ slept' = NoSleep
                    /\ UNCHANGED <<chunkNo, translations>>
               ELSE /\ writer' = out.w
                    /\ file' = out.file
                    /\ translations' = Append(translations, translatedChunk)
                    /\ slept' = IF chunkNo < n
                                THEN [site |-> "pace", ms |-> PacingDelayMs(Len(fileChunks[chunkNo]))]
                                ELSE NoSleep
                    /\ chunkNo' = chunkNo + 1
                    /\ tpc' = "loop"
                    /\ ret' = ret
    /\ UNCHANGED <<text, ChunkSize, MaxRetries, splitVars, fileChunks, maxRetries, attempt,
                   retryDelay, sendAttempt, sendDelay, translatedChunk, chunkErr, resp, calls,
                   successes, sends, transportFailures, everCalled>>

PipeNext ==
    \/ TF_Start
    \/ TF_ChunkBegin
    \/ TF_ReturnNil
    \/ TF_Attempt
    \/ TC_Send
    \/ TF_AfterCall
    \/ TF_Write

PipeSpec == PipeInit /\ [][PipeNext]_vars

(***************************************************************************)
(* translateChunk on a response it received.                               *)
(***************************************************************************)
HandleInit ==
    /\ text = <<>>
    /\ ChunkSize \in ChunkSizes
    /\ MaxRetries = 0
    /\ pc = "idle"
    /\ SplitIdle
    /\ tpc = "response"
    /\ PipeIdle
    /\ resp \in ResponsesOver(Contents)

\* lines 350-405
TC_Handle ==
    /\ tpc = "response"
    /\ CallReturns(HandleResponse(resp))
    /\ UNCHANGED <<text, ChunkSize, MaxRetries, splitVars, fileChunks, chunkNo, maxRetries,
                   attempt, retryDelay, sendAttempt, sendDelay, writer, file, ret, resp, calls,
                   sends, transportFailures, slept, translations, everCalled>>

HandleNext == TC_Handle

HandleSpec == HandleInit /\ [][HandleNext]_vars

(***************************************************************************)
(* TranslateFile on documents whose chunks are long enough for the pacing  *)
(* delay to grow: two paragraphs of one length, and the budget at which    *)
(* each of them is a chunk of its own.                                     *)
(***************************************************************************)
Rep(c, n) == [i \in 1..n |-> c]

PaceLengths == {3, 999, 1000, 1001, 1999, 2000, 4999, 5000, 6000}

PaceText(n) == Rep("a", n) \o <<NL, NL>> \o Rep("a", n)

\* a budget whose effective size is the estimate of one paragraph
PaceBudget(n) ==
    CHOOSE cs \in 1..Max(1, n) : effectiveChunkSizeOf(cs) = Max(1, EstimateTokens(Rep("a", n)))

PaceRetryConfigs == {1, 2}

PaceInit ==
    /\ \E n \in PaceLengths : text = PaceText(n) /\ ChunkSize = PaceBudget(n)
    /\ MaxRetries \in PaceRetryConfigs
    /\ pc = "idle"
    /\ SplitIdle
    /\ tpc = "start"
    /\ PipeIdle
    /\ resp = NoResponse

PaceSpec == PaceInit /\ [][PipeNext]_vars

(***************************************************************************)
(* TranslateFile on documents of one and of two chunks with a ceiling of   *)
(* MaxBackoffRetries attempts, where the backoff delay doubles three       *)
(* times.                                                                  *)
(***************************************************************************)
BackoffDocuments == { Rep("a", 4), Rep("a", 8) }

BackoffInit ==
    /\ text \in BackoffDocuments
    /\ ChunkSize = 1
    /\ MaxRetries \in {0, MaxBackoffRetries}
    /\ pc = "idle"
    /\ SplitIdle
    /\ tpc = "start"
    /\ PipeIdle
    /\ resp = NoResponse

BackoffSpec == BackoffInit /\ [][PipeNext]_vars

\* the step machine and the function agree
SplitAgrees == pc = "done" => chunks = splitIntoChunks(text, ChunkSize)

(***************************************************************************)
(* The reconstruction of the repository's test (TestSplitIntoChunks).      *)
(***************************************************************************)
IsSpace(c) == c = SP \/ c = NL

\* endsWithNewline
endsWithNewline(s) == Len(s) > 0 /\ s[Len(s)] = NL

\* reconstructed += chunk, and "\n\n" after a chunk that is not the last and does not
\* end with a newline
RECURSIVE Reconstruct(_, _)
Reconstruct(cs, k) ==
    IF k > Len(cs) THEN <<>>
    ELSE cs[k] \o (IF k < Len(cs) /\ ~endsWithNewline(cs[k]) THEN <<NL, NL>> ELSE <<>>)
               \o Reconstruct(cs, k + 1)

\* strings.Join(strings.Fields(s), " "): every run of white space becomes one space,
\* the runs at the two ends go
RECURSIVE normalizeFrom(_, _, _)
normalizeFrom(s, k, started) ==
    IF k > Len(s) THEN <<>>
    ELSE IF IsSpace(s[k]) THEN normalizeFrom(s, k + 1, started)
    ELSE (IF started /\ IsSpace(s[k - 1]) THEN <<SP>> ELSE <<>>) \o <<s[k]>>
         \o normalizeFrom(s, k + 1, TRUE)

normalizeText(s) == normalizeFrom(s, 1, FALSE)

(***************************************************************************)
(* The claims on splitIntoChunks.                                          *)
(***************************************************************************)
\* C1: whenever splitIntoChunks returns more than one chunk and the fixed-width loop was
\* not entered, the chunks joined by the test's separator rule are, after white-space
\* normalization, the white-space-normalized input.
C1_Reconstruction ==
    (pc = "done" /\ Len(chunks) > 1 /\ ~sliced)
        => normalizeText(Reconstruct(chunks, 1)) = normalizeText(text)

\* C2: a non-empty text whose estimate len/4 is at most the budget comes back as exactly
\* one chunk, the text itself, however many paragraphs it holds.
C2_WholeWithinBudget ==
    (pc = "done" /\ text # <<>> /\ Len(text) \div 4 <= ChunkSize) => chunks = <<text>>

C2_Witness ==
    /\ pc = "done"
    /\ Len(text) \div 4 <= ChunkSize
    /\ Len(Split(text, <<NL, NL>>)) > 1
    /\ chunks = <<text>>

\* the steps still to go: a variant of the loops of splitIntoChunks
StepsPerParagraph == Len(text) + 2

Rank ==
    CASE pc = "call" -> StepsPerParagraph * StepsPerParagraph + 2
      [] pc = "para" ->
            IF paraIdx > Len(paragraphs) THEN 1
            ELSE (Len(paragraphs) - paraIdx + 1) * StepsPerParagraph + 1
      [] pc \in {"lines", "sentences"} ->
            (Len(paragraphs) - paraIdx) * StepsPerParagraph + (Len(units) - unitIdx + 1) + 1
      [] pc = "slice" ->
            (Len(paragraphs) - paraIdx) * StepsPerParagraph
                + (Len(paragraphs[paraIdx]) - sliceIdx) + 1
      [] OTHER -> 0

\* a step can be taken
CanStep ==
    \/ pc \in {"call", "para"}
    \/ pc \in {"lines", "sentences"} /\ unitIdx <= Len(units)
    \/ pc = "slice" /\ sliceIdx < Len(paragraphs[paraIdx])

\* C4: splitIntoChunks terminates: every step of its loops lowers a natural-number
\* variant and leaves the function either returned or able to step again, and every
\* iteration of the fixed-width loop moves its index forward.
C4_Terminates ==
    [][ /\ Rank' < Rank
        /\ Rank' >= 0
        /\ (pc' = "done" \/ CanStep')
        /\ (pc = "slice" => sliceIdx' > sliceIdx) ]_vars

\* a text without any boundary was sliced into more than one window and returned
C4_Witness ==
    /\ pc = "done"
    /\ sliced
    /\ Len(paragraphs) = 1
    /\ Len(Split(text, <<NL>>)) = 1
    /\ Len(Sentences(text)) = 1
    /\ Len(chunks) > 1

\* C5: when the text's estimate exceeds the budget, every chunk's estimate is at most
\* the effective budget plus the estimate of the largest unit packed into it.
C5_OvershootOneUnit ==
    (pc = "done" /\ Len(text) \div 4 > ChunkSize)
        => \A k \in 1..Len(chunks) :
               Len(chunks[k]) \div 4 <= effectiveChunkSize + chunkUnit[k]

(***************************************************************************)
(* The claims on TranslateFile and translateChunk.                         *)
(***************************************************************************)
\* the output described for the translations ts of the first Len(ts) of n
\* chunks: each followed by one newline when it is not the last chunk's and does not
\* end with one
RECURSIVE ExpectedOutput(_, _, _)
ExpectedOutput(ts, k, n) ==
    IF k > Len(ts) THEN <<>>
    ELSE LET t == ts[k]
             endsNL == t # <<>> /\ t[Len(t)] = NL
         IN  t \o (IF k # n /\ ~endsNL THEN <<NL>> ELSE <<>>) \o ExpectedOutput(ts, k + 1, n)

InChunk == tpc \in {"attempt", "send", "returned", "write"}
TranslateFailed == ret.kind = "failed to translate chunk"
ReturnedNil == tpc = "exit" /\ ret.kind = NoError

\* C3: on the empty document splitIntoChunks yields no chunk, and TranslateFile calls
\* translateChunk never, writes nothing, and returns success once the files are open.
C3_EmptyDocument ==
    text = <<>> =>
        /\ tpc # "start" => fileChunks = <<>>
        /\ ~everCalled
        /\ writer = NewWriter
        /\ file = <<>>
        /\ tpc \in {"start", "loop", "exit"}
        /\ tpc = "exit" =>
               ret.kind \in {NoError, "failed to read input file", "failed to create output file"}

C3_Witness == text = <<>> /\ ReturnedNil /\ ~everCalled /\ file = <<>>

\* C6: per chunk translateChunk is called once per attempt until the first success or
\* the ceiling: never more than maxRetries times, never again after a success; a chunk
\* goes on to be written after exactly as many calls as it took to succeed, and the
\* file fails after exactly maxRetries failed calls with the last call's error.
C6_RetryCount ==
    /\ InChunk => calls <= maxRetries /\ successes <= 1
    /\ tpc \in {"attempt", "send"} => successes = 0
    /\ tpc = "send" => calls = attempt + 1
    /\ tpc = "returned" => calls = attempt + 1 /\ (successes = 1 <=> chunkErr = NoError)
    /\ tpc = "write" => successes = 1 /\ calls = attempt + 1 /\ chunkErr = NoError
    /\ TranslateFailed =>
           /\ calls = maxRetries
           /\ successes = 0
           /\ chunkErr # NoError
           /\ ret.cause = chunkErr

\* two failed calls, then the third succeeds and is the last
C6_Witness ==
    /\ tpc = "write"
    /\ maxRetries = 3
    /\ calls = 3
    /\ successes = 1
    /\ translatedChunk # <<>>

\* C7: chunks are translated in order, one at a time, a call of translateChunk for
\* chunk i+1 only with the translations of the chunks up to i in the output; when every
\* chunk succeeds the output holds the translations in order, each followed by one
\* newline when it is not the last chunk's and does not end with one.
C7_OrderedOutput ==
    /\ tpc \in {"loop", "attempt", "send", "returned", "write"} =>
           Len(translations) = chunkNo - 1
    /\ tpc \in {"send", "returned"} =>
           file = ExpectedOutput(translations, 1, Len(fileChunks))
    /\ ReturnedNil =>
           /\ Len(translations) = Len(fileChunks)
           /\ file = ExpectedOutput(translations, 1, Len(fileChunks))

\* what holds of the order and the output while the file takes every write
OrderedOutputOnSoundDisk ==
    /\ tpc \in {"loop", "attempt", "send", "returned", "write"} =>
           /\ Len(translations) = chunkNo - 1
           /\ writer.err \/ file = ExpectedOutput(translations, 1, Len(fileChunks))
    /\ ReturnedNil =>
           /\ Len(translations) = Len(fileChunks)
           /\ writer.err \/ file = ExpectedOutput(translations, 1, Len(fileChunks))

\* C8: when a chunk runs out of attempts TranslateFile returns an error naming that
\* chunk and the attempt count, makes no further call, and the flushed output holds
\* exactly the translations, with their separators, of the chunks before it.
C8_FatalChunkFailure ==
    TranslateFailed =>
        /\ ret.chunk = Len(translations) + 1
        /\ ret.chunk <= Len(fileChunks)
        /\ ret.attempts = maxRetriesOf(MaxRetries)
        /\ ret.attempts = calls
        /\ tpc = "exit"
        /\ ~ENABLED PipeNext
        /\ writer.buf = <<>>
        /\ file = ExpectedOutput(translations, 1, Len(fileChunks))

\* what holds of a fatal chunk failure while the file takes every write
FatalChunkFailureOnSoundDisk ==
    TranslateFailed =>
        /\ ret.chunk = Len(translations) + 1
        /\ ret.chunk <= Len(fileChunks)
        /\ ret.attempts = maxRetriesOf(MaxRetries)
        /\ ret.attempts = calls
        /\ tpc = "exit"
        /\ ~ENABLED PipeNext
        /\ writer.err \/ (writer.buf = <<>> /\ file = ExpectedOutput(translations, 1, Len(fileChunks)))

\* C9: a failed write or flush of a chunk's translation ends TranslateFile at once: no
\* call of translateChunk follows it and the run does not return success.
C9_WriteFailureFatal ==
    writer.err => /\ tpc \notin {"attempt", "send", "returned", "write"}
                  /\ ~ReturnedNil

\* the content c holds <result> at i, no <result> before i, and r followed by
\* </result> right after it, r holding no </result>
BetweenFirstTags(c, r) ==
    \E i \in 1..Len(c) :
        /\ MatchAt(c, OpenTag, i)
        /\ \A h \in 1..(i - 1) : ~MatchAt(c, OpenTag, h)
        /\ LET from == i + Len(OpenTag)
           IN  /\ MatchAt(c, CloseTag, from + Len(r))
               /\ r = SubSeq(c, from, from + Len(r) - 1)
               /\ \A j \in from..(from + Len(r) - 1) : ~MatchAt(c, CloseTag, j)

HasResultPair(c) ==
    \E i, j \in 1..Len(c) :
        MatchAt(c, OpenTag, i) /\ MatchAt(c, CloseTag, j) /\ j >= i + Len(OpenTag)

GotContent ==
    /\ tpc = "returned"
    /\ resp.status = StatusOK
    /\ resp.body.readable /\ resp.body.json /\ ~resp.body.apiError
    /\ Len(resp.body.choices) > 0

\* C10: on a success-status response whose first message content holds no
\* <result>...</result> pair translateChunk returns an error and the empty string; when
\* it holds one, the text between the first <result> and the first </result> after it.
C10_ResultTagOnly ==
    GotContent =>
        LET c == resp.body.choices[1]
        IN  IF HasResultPair(c)
            THEN chunkErr = NoError /\ BetweenFirstTags(c, translatedChunk)
            ELSE chunkErr # NoError /\ translatedChunk = <<>>

\* a content with text and a lone opening tag is refused
C10_Witness ==
    /\ GotContent
    /\ resp.body.choices[1] = OpenTag \o <<"x">>
    /\ chunkErr = "tag <result> not found"
    /\ translatedChunk = <<>>

(***************************************************************************)
(* The claims on pacing and on the two retry loops.                        *)
(***************************************************************************)
\* 10 ms + min((len / 1000) * 300 ms, 1500 ms), integer division
PacingFormulaMs(chunkLen) ==
    LET additional == (chunkLen \div 1000) * PacingStepMs
    IN  BasePacingMs + (IF additional > PacingCapMs THEN PacingCapMs ELSE additional)

\* C11: after each written chunk but the last TranslateFile sleeps exactly
\* 10 ms + min((len(chunk) / 1000) * 300 ms, 1500 ms), whatever the chunk's length (a
\* length of exactly 1000 included); after the last chunk it does not sleep.
C11_PacingDelay ==
    /\ slept.site = "pace" =>
           /\ tpc = "loop" /\ chunkNo > 1 /\ chunkNo <= Len(fileChunks)
           /\ slept.ms = PacingFormulaMs(Len(fileChunks[chunkNo - 1]))
    /\ (tpc = "loop" /\ chunkNo > 1 /\ chunkNo <= Len(fileChunks)) => slept.site = "pace"
    /\ (tpc = "loop" /\ chunkNo > Len(fileChunks)) => slept = NoSleep

\* the sleeps are those of the formula for every chunk length but 1000
PacingDelayOffThreshold ==
    /\ slept.site = "pace" =>
           /\ tpc = "loop" /\ chunkNo > 1 /\ chunkNo <= Len(fileChunks)
           /\ Len(fileChunks[chunkNo - 1]) # PacingThresholdChars
                  => slept.ms = PacingFormulaMs(Len(fileChunks[chunkNo - 1]))
           /\ Len(fileChunks[chunkNo - 1]) = PacingThresholdChars => slept.ms = BasePacingMs
    /\ (tpc = "loop" /\ chunkNo > 1 /\ chunkNo <= Len(fileChunks)) => slept.site = "pace"
    /\ (tpc = "loop" /\ chunkNo > Len(fileChunks)) => slept = NoSleep

\* the requests sent by the call of translateChunk that has just returned: sendAttempt
\* counts the failed ones, a delivered response is one more
SendsInCall == IF chunkErr = "failed to send request" THEN sendAttempt ELSE sendAttempt + 1

\* C12: a transport error in either form, the capability not reached or a non-success
\* status, is returned by translateChunk to the per-chunk loop only after the request
\* was sent maxAttempts times inside that call.
C12_TransportRetriedInside ==
    (tpc = "returned" /\ chunkErr \in {"failed to send request", "API request failed"})
        => SendsInCall = maxRetriesOf(MaxRetries)

\* an unreachable capability is retried inside the call, a non-success status is
\* returned on its first occurrence
TransportRetryAsCoded ==
    /\ (tpc = "returned" /\ chunkErr = "failed to send request")
           => sendAttempt = maxRetriesOf(MaxRetries)
    /\ (tpc = "returned" /\ chunkErr = "API request failed")
           => sendAttempt < maxRetriesOf(MaxRetries) /\ resp = NoResponse

\* the ceiling as the claim gives it
ConfiguredCeiling == IF MaxRetries > 0 THEN MaxRetries ELSE 3

\* C13: at both retry sites the ceiling on attempts is the configured MaxRetries when
\* that is greater than 0 and 3 otherwise, so that at least one attempt is always made:
\* a chunk is given up after exactly that many calls, a call after exactly that many
\* failed sends, and neither before a first attempt.
C13_AttemptCeiling ==
    /\ InChunk => maxRetries = ConfiguredCeiling /\ calls <= ConfiguredCeiling
    /\ tpc \in {"send", "returned", "write"} => calls >= 1
    /\ tpc \in {"send", "returned"} => sendAttempt <= ConfiguredCeiling
    /\ tpc = "send" => sendAttempt < ConfiguredCeiling
    /\ tpc = "returned" => SendsInCall >= 1 /\ sends >= calls
    /\ (tpc = "returned" /\ chunkErr = "failed to send request")
           => sendAttempt = ConfiguredCeiling
    /\ TranslateFailed => calls = ConfiguredCeiling /\ calls >= 1 /\ sends >= calls

\* with MaxRetries at 0 a chunk is given up after three calls of three failed sends
C13_Witness ==
    /\ MaxRetries = 0
    /\ TranslateFailed
    /\ calls = 3
    /\ chunkErr = "failed to send request"
    /\ sendAttempt = 3

\* C14: a response-format error inside a delivered response (a body that does not parse,
\* no choices, no <result> tag) ends the call of translateChunk at once: a further send
\* within a call follows only a failed client.Do, no request is sent between the return
\* of the error and the next call, and the error is retried only by a fresh call of
\* translateChunk from the per-chunk loop.
C14_FormatErrorNotResent ==
    [][ /\ (tpc = "send" /\ tpc' = "send")
               => /\ sendAttempt' = sendAttempt + 1
                  /\ chunkErr' = chunkErr
                  /\ calls' = calls
        /\ (tpc = "send" /\ chunkErr' \in FormatErrors /\ chunkErr' # chunkErr)
               => tpc' = "returned" /\ sends' = sends + 1
        /\ (tpc = "returned" /\ chunkErr \in FormatErrors)
               => /\ sends' = sends
                  /\ tpc' \in {"attempt", "exit"}
                  /\ AttemptsLeft(attempt + 1, maxRetries)
                         => tpc' = "attempt" /\ attempt' = attempt + 1
        /\ (tpc = "attempt" /\ tpc' = "send")
               => calls' = calls + 1 /\ sendAttempt' = 0 /\ sends' = sends
      ]_vars

\* a missing tag in the first response of the first call: the second call has begun
\* with one request sent where three were allowed
C14_Witness ==
    /\ MaxRetries = 3
    /\ tpc = "send"
    /\ calls = 2
    /\ sends = 1
    /\ sendAttempt = 0
    /\ chunkErr = "tag <result> not found"

\* the sleep before attempt k of a retry loop: none before attempt 0, then 2 s * 2^(k-1)
BackoffBefore(site, k) ==
    IF k = 0 THEN NoSleep ELSE [site |-> site, ms |-> 2000 * 2 ^ (k - 1)]

\* C15: in each retry loop there is no sleep before attempt 0 and the sleep before
\* attempt k >= 1 is 2 s * 2^(k-1); the attempt counter and the delay start again at 0
\* and 2 s for every chunk and for every call of translateChunk.
C15_Backoff ==
    [][ /\ (tpc = "loop" /\ tpc' = "attempt") => attempt' = 0 /\ retryDelay' = 2000
        /\ (tpc = "attempt" /\ tpc' = "send")
               => /\ slept' = BackoffBefore("chunk", attempt)
                  /\ sendAttempt' = 0
                  /\ sendDelay' = 2000
        /\ (tpc = "send" /\ sends' = sends + 1) => slept' = BackoffBefore("send", sendAttempt)
        /\ slept'.site \in {"chunk", "send"} => tpc \in {"attempt", "send"}
      ]_vars

\* the second chunk, second call, fourth send: 8 s slept inside the call while the
\* per-chunk delay stands at 4 s
C15_Witness ==
    /\ chunkNo = 2
    /\ attempt = 1
    /\ retryDelay = 4000
    /\ slept = [site |-> "send", ms |-> 8000]
    /\ sendDelay = 16000

(***************************************************************************)
(* Further claims on splitIntoChunks.                                      *)
(***************************************************************************)
\* the buffer has reached the effective budget and a paragraph, line or sentence is next
BufferFull ==
    /\ pc \in {"para", "lines", "sentences"}
    /\ currentChunk # <<>>
    /\ currentTokens >= effectiveChunkSize

\* the step emits the buffer as it stands
EmitsBuffer == Len(chunks') > Len(chunks) /\ chunks'[Len(chunks) + 1] = currentChunk

\* C16: once the running estimate of the buffer has reached or exceeded the effective
\* budget, the buffer is emitted as a chunk before any further paragraph, line or
\* sentence is appended: no unit is appended to a buffer whose estimate is already
\* greater than or equal to the effective budget.
C16_FullBufferEmitted == [][BufferFull => EmitsBuffer]_vars

\* on the paragraph and line paths a full buffer is emitted before the next unit
FullBufferEmittedOffSentences == [][(BufferFull /\ pc # "sentences") => EmitsBuffer]_vars

SentenceMarkers == { <<".", SP>>, <<"!", SP>>, <<"?", SP>>, <<";", SP>> }

Contains(s, sub) == sub = <<>> \/ IndexFrom(s, sub, 1) # 0

\* C17: the boundary preference paragraph > line > sentence > fixed-width: a paragraph
\* is cut into fixed-width windows only if its estimate exceeds the effective budget, it
\* holds no newline and it holds none of the sentence markers ". ", "! ", "? ", "; "
\* anywhere; a paragraph whose estimate does not exceed the effective budget is never
\* divided between two chunks.
C17_BoundaryPreference ==
    /\ pc = "slice" =>
           LET paragraph == paragraphs[paraIdx]
           IN  /\ EstimateTokens(paragraph) > effectiveChunkSize
               /\ ~Contains(paragraph, <<NL>>)
               /\ \A marker \in SentenceMarkers : ~Contains(paragraph, marker)
    /\ (pc = "done" /\ text # <<>>) =>
           LET ps == Split(text, <<NL, NL>>)
           IN  \A i \in 1..Len(ps) :
                   EstimateTokens(ps[i]) <= effectiveChunkSizeOf(ChunkSize)
                       => \E k \in 1..Len(chunks) : Contains(chunks[k], ps[i])

\* the preference as the code has it: fixed-width windows when the paragraph is over the
\* budget, has no newline and yields at most one sentence
BoundaryPreferenceAsCoded ==
    /\ pc = "slice" =>
           LET paragraph == paragraphs[paraIdx]
           IN  /\ EstimateTokens(paragraph) > effectiveChunkSize
               /\ ~Contains(paragraph, <<NL>>)
               /\ Len(Sentences(paragraph)) <= 1
    /\ (pc = "done" /\ text # <<>>) =>
           LET ps == Split(text, <<NL, NL>>)
           IN  \A i \in 1..Len(ps) :
                   EstimateTokens(ps[i]) <= effectiveChunkSizeOf(ChunkSize)
                       => \E k \in 1..Len(chunks) : Contains(chunks[k], ps[i])

\* s without its spaces and newlines
StripSpace(s) == SelectSeq(s, LAMBDA c : ~IsSpace(c))

\* C18: for every text and budget, on every path, the chunks concatenated in order and
\* stripped of spaces and newlines are the input stripped of spaces and newlines: no
\* other character is lost, duplicated or moved.
C18_NonSpacePreserved == pc = "done" => StripSpace(Concat(chunks)) = StripSpace(text)

\* a text with a sentence marker, cut in part by fixed-width windows, that came back
\* with its white space changed
C18_Witness ==
    /\ pc = "done"
    /\ sliced
    /\ Contains(text, <<".", SP>>)
    /\ Len(chunks) >= 3
    /\ Concat(chunks) # text
    /\ StripSpace(Concat(chunks)) = StripSpace(text)

\* C19: for every text and positive budget no chunk of splitIntoChunks is the empty
\* string, so that TranslateFile, which sends the chunks one by one, never sends an
\* empty chunk.
C19_NoEmptyChunk == \A k \in 1..Len(chunks) : chunks[k] # <<>>

\* a text over the budget that begins with an empty paragraph, the buffer still empty
\* when the next paragraph, over the budget, asks for it to be emitted
C19_Witness ==
    /\ pc = "done"
    /\ Len(chunks) > 1
    /\ LET ps == Split(text, <<NL, NL>>)
       IN  /\ Len(ps) > 1
           /\ ps[1] = <<>>
           /\ EstimateTokens(ps[2]) > effectiveChunkSize
    /\ \A k \in 1..Len(chunks) : chunks[k] # <<>>

\* every request sent for the chunk so far failed with a transport error: client.Do
\* returned an error, or the response had a status other than 200
EverySendFailedInTransport == transportFailures = sends

\* C20: the two retry loops being nested, the requests sent for one chunk never exceed
\* maxAttempts * maxAttempts; when every one of them fails with a transport error,
\* TranslateFile fails after exactly maxAttempts * maxAttempts requests and exactly
\* maxAttempts calls of translateChunk.
C20_NestedSends ==
    /\ InChunk => sends <= ConfiguredCeiling * ConfiguredCeiling
    /\ TranslateFailed => sends <= ConfiguredCeiling * ConfiguredCeiling
    /\ (TranslateFailed /\ EverySendFailedInTransport)
           => sends = ConfiguredCeiling * ConfiguredCeiling /\ calls = ConfiguredCeiling

\* the counts as the code has them: a failed chunk has had maxAttempts calls of at least
\* one and at most maxAttempts requests each
NestedSendsAsCoded ==
    /\ InChunk => sends <= ConfiguredCeiling * ConfiguredCeiling
    /\ TranslateFailed =>
           /\ calls = ConfiguredCeiling
           /\ sends >= ConfiguredCeiling
           /\ sends <= ConfiguredCeiling * ConfiguredCeiling
====
